---- MODULE Spec2Model ----
(***************************************************************************)
(* A model of nexus3ctl (src/nexus3ctl.py): the selector limit_reduce, the *)
(* toggle-list resolver control_list, and the list / export / import runs  *)
(* of the Nexus3Ctl class against a remote server.                         *)
(*                                                                         *)
(* Python strings are modelled as sequences of one-character strings, so   *)
(* that split, startswith, endswith, substring search and slicing are      *)
(* computed and not assumed.                                               *)
(***************************************************************************)
EXTENDS Integers, Sequences, FiniteSets, TLC

VARIABLES
    selPc, selConfig, selLimits, selSelect, selResult,
    tglPc, tglConfig, tglDefaults, tglDefault, tglResult, tglCallerAfter,
    op, dry_mode, target_dir, typesExpr, targets, types, pc, loaded, todo,
    dir, requests, calls, outcomes,
    output_format, limitsOpt, selectOpt, clean, fetched, fsDir, fsFiles, err

selVars == <<selPc, selConfig, selLimits, selSelect, selResult>>
tglVars == <<tglPc, tglConfig, tglDefaults, tglDefault, tglResult, tglCallerAfter>>
cfgVars == <<op, dry_mode, target_dir, typesExpr, output_format, limitsOpt, selectOpt, clean>>
fsVars == <<fsDir, fsFiles>>
runVars == <<cfgVars, targets, types, pc, loaded, todo, dir, requests, calls, outcomes,
             fetched, fsVars, err>>
vars == <<selVars, tglVars, runVars>>

(***************************************************************************)
(* Bounds of the model.                                                    *)
(***************************************************************************)
MaxItems == 2
MaxLimitLen == 3
MaxTokens == 3
MaxFiles == 2
MaxListed == 2

(***************************************************************************)
(* Python values.                                                          *)
(***************************************************************************)
\* Python's None where a string is expected: a sequence no string equals.
None == <<"<None>">>

Comma == ","

\* str.split(sep) for a one-character separator: "" gives [""].
RECURSIVE SplitFrom(_, _, _, _, _)
SplitFrom(s, sep, i, cur, acc) ==
    IF i > Len(s) THEN Append(acc, cur)
    ELSE IF s[i] = sep THEN SplitFrom(s, sep, i + 1, <<>>, Append(acc, cur))
    ELSE SplitFrom(s, sep, i + 1, Append(cur, s[i]), acc)

Split(s, sep) == SplitFrom(s, sep, 1, <<>>, <<>>)

\* s.startswith(p)
StartsWith(s, p) == Len(p) <= Len(s) /\ SubSeq(s, 1, Len(p)) = p

\* s.endswith(p)
EndsWith(s, p) == Len(p) <= Len(s) /\ SubSeq(s, Len(s) - Len(p) + 1, Len(s)) = p

\* p in s, for strings
Contains(s, p) ==
    \E i \in 1..(Len(s) - Len(p) + 1) : SubSeq(s, i, i + Len(p) - 1) = p

\* re.match(p, s) for patterns made of literal characters and ".":
\* the pattern is matched at the start of s, the rest of s is free.
ReMatch(p, s) ==
    /\ Len(p) <= Len(s)
    /\ \A i \in 1..Len(p) : p[i] = "." \/ p[i] = s[i]

\* dict.get(key): None when the item has no such field.
Get(item, key) == IF key \in DOMAIN item THEN item[key] ELSE None

(***************************************************************************)
(* limit_reduce                                                            *)
(***************************************************************************)
Ok(out) == [kind |-> "ok", exc |-> "", out |-> out]
Raise(exc) == [kind |-> "raise", exc |-> exc, out |-> <<>>]

\* The comprehension of one strategy over config: the matched items, or the
\* exception the first item without the key field raises.
Matched(config, key, limit, select) ==
    LET hasNone == \E i \in 1..Len(config) : Get(config[i], key) = None
        eq(item) == Get(item, key) = limit
        co(item) == Contains(Get(item, key), limit)
        sw(item) == StartsWith(Get(item, key), limit)
        ew(item) == EndsWith(Get(item, key), limit)
        rx(item) == ReMatch(limit, Get(item, key))
    IN  CASE select = "exact" -> Ok(SelectSeq(config, eq))
          [] select = "contains" ->
                IF hasNone THEN Raise("TypeError") ELSE Ok(SelectSeq(config, co))
          [] select = "startswith" ->
                IF hasNone THEN Raise("AttributeError") ELSE Ok(SelectSeq(config, sw))
          [] select = "endswith" ->
                IF hasNone THEN Raise("AttributeError") ELSE Ok(SelectSeq(config, ew))
          [] select = "regex" ->
                IF hasNone THEN Raise("TypeError") ELSE Ok(SelectSeq(config, rx))
          [] OTHER -> Raise("Nexus3CtlException")

\* AppendNew without the check for an item of that key already in out.
RECURSIVE AppendNewNoDedup(_, _, _, _)
AppendNewNoDedup(out, matched, key, i) ==
    IF i > Len(matched) THEN out
    ELSE AppendNewNoDedup(Append(out, matched[i]), matched, key, i + 1)

\* for match in matched: append it unless out holds an item of that key.
RECURSIVE AppendNew(_, _, _, _)
AppendNew(out, matched, key, i) ==
    IF i > Len(matched) THEN out
    ELSE LET ident == Get(matched[i], key)
             existing == \E j \in 1..Len(out) : Get(out[j], key) = ident
         IN  AppendNew(IF existing THEN out ELSE Append(out, matched[i]),
                       matched, key, i + 1)

\* for limit in limits: ...
RECURSIVE ReduceLoop(_, _, _, _, _, _)
ReduceLoop(config, key, limits, select, i, out) ==
    IF i > Len(limits) THEN Ok(out)
    ELSE LET m == Matched(config, key, limits[i], select)
         IN  IF m.kind = "raise" THEN m
             ELSE ReduceLoop(config, key, limits, select, i + 1,
                             AppendNew(out, m.out, key, 1))

\* select = select or LimitSelect.EXACT
EffectiveSelect(select) == IF select = "None" THEN "exact" ELSE select

\* limits = limits.split(sep) if isinstance(limits, str) else limits
EffectiveLimits(limits, sep) ==
    IF limits.t = "str" THEN [t |-> "list", v |-> Split(limits.v, sep)] ELSE limits

\* not limits
LimitsFalsy(limits) == limits.t = "none" \/ (limits.t = "list" /\ limits.v = <<>>)

limit_reduce(config, key, limits, sep, select) ==
    LET sel == EffectiveSelect(select)
        lim == EffectiveLimits(limits, sep)
    IN  IF LimitsFalsy(lim) THEN Ok(config)
        ELSE ReduceLoop(config, key, lim.v, sel, 1, <<>>)

(***************************************************************************)
(* The inputs of limit_reduce.                                             *)
(***************************************************************************)
RECURSIVE SeqsUpTo(_, _)
SeqsUpTo(S, n) ==
    IF n = 0 THEN {<<>>}
    ELSE LET shorter == SeqsUpTo(S, n - 1)
         IN  shorter \cup {Append(s, x) : s \in {t \in shorter : Len(t) = n - 1}, x \in S}

\* Names of items: the empty name, two one-letter names, and a longer one
\* that has the others as prefix, suffix and substring.
ItemNames == {<<>>, <<"a">>, <<"b">>, <<"a", "b">>}

\* An item's fields: its position stands for the opaque fields it carries.
ItemsAt(n) == {[name |-> nm, tag |-> n] : nm \in ItemNames} \cup {[tag |-> n]}

RECURSIVE ConfigsOfLen(_)
ConfigsOfLen(n) ==
    IF n = 0 THEN {<<>>}
    ELSE {Append(c, it) : c \in ConfigsOfLen(n - 1), it \in ItemsAt(n)}

Configs == UNION {ConfigsOfLen(n) : n \in 0..MaxItems}

LimitChars == {"a", "b", ",", "."}

LimitInputs ==
    {[t |-> "none", v |-> <<>>], [t |-> "list", v |-> <<>>]}
    \cup {[t |-> "str", v |-> s] : s \in SeqsUpTo(LimitChars, MaxLimitLen)}

\* LimitSelect, None (the default), and a value outside the enumeration.
Selects == {"exact", "contains", "startswith", "endswith", "regex", "None", "bogus"}

SelIdle ==
    /\ selPc = "idle"
    /\ selConfig = <<>>
    /\ selLimits = [t |-> "none", v |-> <<>>]
    /\ selSelect = "None"
    /\ selResult = Ok(<<>>)

TglIdle ==
    /\ tglPc = "idle"
    /\ tglConfig = <<>>
    /\ tglDefaults = <<>>
    /\ tglDefault = "None"
    /\ tglResult = {}
    /\ tglCallerAfter = <<>>

SelInit ==
    /\ selPc = "call"
    /\ selConfig \in Configs
    /\ selLimits \in LimitInputs
    /\ selSelect \in Selects
    /\ selResult = Ok(<<>>)

\* limit_reduce(config, key="name", limits=limits, select=select)
LimitReduceCall ==
    /\ selPc = "call"
    /\ selResult' = limit_reduce(selConfig, "name", selLimits, Comma, selSelect)
    /\ selPc' = "done"
    /\ UNCHANGED <<selConfig, selLimits, selSelect, tglVars, runVars>>


(***************************************************************************)
(* control_list                                                            *)
(***************************************************************************)
ALL == <<"A", "L", "L">>
NONE == <<"N", "O", "N", "E">>

\* list.remove(x): drops the first occurrence.
RECURSIVE RemoveFirst(_, _)
RemoveFirst(seq, x) ==
    IF seq = <<>> THEN <<>>
    ELSE IF Head(seq) = x THEN Tail(seq)
    ELSE <<Head(seq)>> \o RemoveFirst(Tail(seq), x)

InSeq(x, seq) == \E i \in 1..Len(seq) : seq[i] = x

SeqToSet(seq) == {seq[i] : i \in 1..Len(seq)}

\* out = defaults binds out to the list object defaults names.
AllReset(w) == [out |-> w.defaults, defaults |-> w.defaults, aliased |-> TRUE]

\* out.append(name) / out.remove(name): seen through defaults as well while
\* out and defaults name the same list.
Mutate(w, newOut) ==
    [out |-> newOut,
     defaults |-> IF w.aliased THEN newOut ELSE w.defaults,
     aliased |-> w.aliased]

\* One iteration of "for conf in config".
ControlStep(w, conf) ==
    IF conf = <<>> THEN w
    ELSE LET remove == StartsWith(conf, <<"-">>)
             name == IF remove \/ StartsWith(conf, <<"+">>) THEN Tail(conf) ELSE conf
         IN  IF conf = ALL THEN AllReset(w)
             ELSE IF conf = NONE THEN [out |-> <<>>, defaults |-> w.defaults, aliased |-> FALSE]
             ELSE IF ~remove
                  THEN IF InSeq(name, w.out) THEN w ELSE Mutate(w, Append(w.out, name))
                  ELSE IF InSeq(name, w.out) THEN Mutate(w, RemoveFirst(w.out, name)) ELSE w

RECURSIVE ControlLoop(_, _, _)
ControlLoop(w, config, i) ==
    IF i > Len(config) THEN w
    ELSE ControlLoop(ControlStep(w, config[i]), config, i + 1)

\* if default is not None and default not in config: config.insert(0, default)
WithDefault(config, default) ==
    IF default # None /\ ~InSeq(default, config) THEN <<default>> \o config ELSE config

\* control_list(config, defaults, delim, default) for a string config:
\* the list returned (as the set it is built from) and the list object
\* defaults names when the function returns.
control_list(config, defaults, delim, default) ==
    LET tokens == WithDefault(Split(config, delim), default)
        w == ControlLoop([out |-> <<>>, defaults |-> defaults, aliased |-> FALSE],
                         tokens, 1)
    IN  [result |-> SeqToSet(w.out), defaults |-> w.defaults]

\* "defaults = defaults or []": a non-empty list of the caller is the list the
\* function works on, an empty one is replaced by a fresh list.
CallerListAfter(callerDefaults, localAfter) ==
    IF callerDefaults = <<>> THEN callerDefaults ELSE localAfter

(***************************************************************************)
(* The inputs of control_list.                                             *)
(***************************************************************************)
RECURSIVE Join(_, _)
Join(tokens, delim) ==
    IF tokens = <<>> THEN <<>>
    ELSE IF Len(tokens) = 1 THEN tokens[1]
    ELSE tokens[1] \o <<delim>> \o Join(Tail(tokens), delim)

ToggleTokens ==
    {<<>>, <<"x">>, <<"-", "x">>, <<"+", "y">>, <<"-", "y">>, ALL, NONE}

ToggleDefaults == {<<>>, <<<<"x">>>>, <<<<"y">>>>, <<<<"x">>, <<"y">>>>, <<<<"y">>, <<"x">>>>}

ToggleDefaultTokens == {ALL, NONE, None}

TglInit ==
    /\ tglPc = "call"
    /\ tglConfig \in {Join(t, Comma) : t \in SeqsUpTo(ToggleTokens, MaxTokens)}
    /\ tglDefaults \in ToggleDefaults
    /\ tglDefault \in ToggleDefaultTokens
    /\ tglResult = {}
    /\ tglCallerAfter = <<>>

\* control_list(config, defaults=defaults, default=default)
ControlListCall ==
    /\ tglPc = "call"
    /\ LET r == control_list(tglConfig, tglDefaults, Comma, tglDefault)
       IN  /\ tglResult' = r.result
           /\ tglCallerAfter' = CallerListAfter(tglDefaults, r.defaults)
    /\ tglPc' = "done"
    /\ UNCHANGED <<tglConfig, tglDefaults, tglDefault, selVars, runVars>>


(***************************************************************************)
(* The Nexus3Ctl runs: resource types, files, requests.                    *)
(***************************************************************************)
REPOS == <<"r", "e", "p", "o", "s">>
ROLES == <<"r", "o", "l", "e", "s">>
LDAP == <<"l", "d", "a", "p">>
REALMS == <<"r", "e", "a", "l", "m", "s">>

\* ResourceTypes.list(), the value of the class attribute Nexus3Ctl.targets
ResourceTypesList == <<REPOS, ROLES, LDAP, REALMS>>

\* A file path is a sequence of words, none of which holds "hosted" or
\* "proxy" as a proper part: "hosted" in file_name is the search of a word.
HasWord(path, w) == \E i \in 1..Len(path) : path[i] = w

\* nexus_sort_repos(file_name)
nexus_sort_repos(file_name) ==
    IF HasWord(file_name, "hosted") THEN 1
    ELSE IF HasWord(file_name, "proxy") THEN 2
    ELSE 3

\* item.get(field, []) and len() of it
LenOrEmpty(item, field) == IF field \in DOMAIN item THEN Len(item[field]) ELSE 0

\* nexus_sort_roles counting the privileges only.
nexus_sort_roles_privileges(item) == LenOrEmpty(item, "privileges")

\* nexus_sort_roles(item)
nexus_sort_roles(item) == LenOrEmpty(item, "roles") * 3 + LenOrEmpty(item, "privileges")

\* sorted(seq, key=...): the stable ascending sort, keys[i] the key of seq[i].
Sorted(seq, keys) ==
    LET n == Len(seq)
        pos(i) == 1 + Cardinality({j \in 1..n :
                        keys[j] < keys[i] \/ (keys[j] = keys[i] /\ j < i)})
    IN  [p \in 1..n |-> seq[CHOOSE i \in 1..n : pos(i) = p]]

\* nexus_remap_format(name)
nexus_remap_format(name) == IF name = "maven2" THEN "maven" ELSE name

\* f"{self.target_dir}/repos/{repo_format}-{repo_type}__{name}.json", as
\* cli_export_repos names the file of a repository and glob returns it.
RepoFilePath(tdir, repo) ==
    tdir \o <<"repos", repo.format, repo.type>> \o repo.name \o <<"json">>

\* Status codes the server answers with: success, a failure, unauthorized.
GetCodes == {200, 404, 401}
RepoPostCodes == {201, 400, 401}
RolePostCodes == {200, 400, 401}
LdapPostCodes == {201, 400, 401}
PutCodes == {204, 400, 401}

\* One request really sent and the status code of its response.
\* The exceptions that reach clean_terminate, by their message or class.
ErrAuth == "Could not authenticate against API, got 401"
ErrMethod == "Unsupported HTTP method"
ErrFormat == "Unsupported format"
ErrMode == "Unsupported mode"
ErrOS == "OSError"

Req(method, path, status) == [method |-> method, path |-> path, status |-> status]

\* api_client that hands a 401 response back instead of raising.
api_client_returns_401(dm, dryArg, method, path, code) ==
    LET dry == IF dryArg = "None" THEN dm ELSE dryArg = "True"
        known == method \in {"GET", "PUT", "POST", "DELETE"}
        real == IF dry THEN method = "GET" ELSE known
        status == IF real THEN code ELSE 200
    IN  [reqs |-> IF real THEN <<Req(method, path, status)>> ELSE <<>>,
         status |-> status,
         raises |-> ~dry /\ ~known]

\* api_client(url_path, method, dry=dryArg) when the server would answer code:
\* the requests really sent, the status of the response handed back, and
\* whether the call raises (status 401, or an unsupported method).
api_client(dm, dryArg, method, path, code) ==
    LET dry == IF dryArg = "None" THEN dm ELSE dryArg = "True"
        known == method \in {"GET", "PUT", "POST", "DELETE"}
        real == IF dry THEN method = "GET" ELSE known
        status == IF real THEN code ELSE 200
    IN  [reqs |-> IF real THEN <<Req(method, path, status)>> ELSE <<>>,
         status |-> status,
         raises |-> (~dry /\ ~known) \/ status = 401]

\* FakeResponse(status_code)
FakeResponse(status_code) == [reqs |-> <<>>, status |-> status_code, raises |-> FALSE]

\* api_get_repo(name, repo_format, repo_type): without format and type (auto)
\* the lookup by name comes first, then the fetch by format and type.
\* c1 and c2 are the server's answers; the result is the requests sent and
\* "found", "missing" ({} returned) or "raised".
api_get_repo(dm, repo, auto, c1, c2) ==
    LET r1 == IF auto
              THEN api_client(dm, "None", "GET", <<"repositories">> \o repo.name, c1)
              ELSE [reqs |-> <<>>, status |-> 200, raises |-> FALSE]
        r2 == api_client(dm, "None", "GET",
                 <<"repositories", nexus_remap_format(repo.format), repo.type>> \o repo.name, c2)
    IN  IF r1.raises THEN [reqs |-> r1.reqs, res |-> "raised"]
        ELSE IF r1.status # 200 THEN [reqs |-> r1.reqs, res |-> "missing"]
        ELSE IF r2.raises THEN [reqs |-> r1.reqs \o r2.reqs, res |-> "raised"]
        ELSE IF r2.status # 200 THEN [reqs |-> r1.reqs \o r2.reqs, res |-> "missing"]
        ELSE [reqs |-> r1.reqs \o r2.reqs, res |-> "found"]

\* api_get_role(ident), api_get_ldap(ident)
api_get_one(dm, path, c1) ==
    LET r1 == api_client(dm, "None", "GET", path, c1)
    IN  IF r1.raises THEN [reqs |-> r1.reqs, res |-> "raised"]
        ELSE IF r1.status # 200 THEN [reqs |-> r1.reqs, res |-> "missing"]
        ELSE [reqs |-> r1.reqs, res |-> "found"]

\* api_set_repo with a dry argument that turns the dry mode off.
SetRepoRetForced(dm, current, repo, code) ==
    LET fmt == nexus_remap_format(repo.format)
    IN  IF current
        THEN api_client(dm, "False", "PUT", <<"repositories", fmt, repo.type>> \o repo.name, code)
        ELSE api_client(dm, "False", "POST", <<"repositories", fmt, repo.type>>, code)

\* api_set_repo, lines 432-448: the response ret.
SetRepoRet(dm, current, repo, code) ==
    LET fmt == nexus_remap_format(repo.format)
    IN  IF dm THEN (IF current THEN FakeResponse(204) ELSE FakeResponse(201))
        ELSE IF current
        THEN api_client(dm, "None", "PUT", <<"repositories", fmt, repo.type>> \o repo.name, code)
        ELSE api_client(dm, "None", "POST", <<"repositories", fmt, repo.type>>, code)

\* api_set_repo, lines 450-459: the status reported.
SetRepoReport(status) ==
    IF status = 201 THEN "created" ELSE IF status = 204 THEN "updated" ELSE "failed"

\* api_set_role, lines 504-518
SetRoleRet(dm, current, role, code) ==
    IF dm THEN (IF current THEN FakeResponse(200) ELSE FakeResponse(204))
    ELSE IF current
    THEN api_client(dm, "None", "PUT", <<"security", "roles">> \o role.id, code)
    ELSE api_client(dm, "None", "POST", <<"security", "roles">>, code)

\* api_set_role, lines 520-529
SetRoleReport(status) ==
    IF status = 200 THEN "created" ELSE IF status = 204 THEN "updated" ELSE "failed"

\* api_set_ldap with the update of an existing endpoint sent as a PUT.
SetLdapRetPut(dm, current, ldap, code) ==
    IF dm THEN (IF current THEN FakeResponse(204) ELSE FakeResponse(201))
    ELSE IF current
    THEN api_client(dm, "None", "PUT", <<"security", "ldap">> \o ldap.name, code)
    ELSE api_client(dm, "None", "POST", <<"security", "ldap">>, code)

\* api_set_ldap, lines 563-581
SetLdapRet(dm, current, ldap, code) ==
    IF dm THEN (IF current THEN FakeResponse(204) ELSE FakeResponse(201))
    ELSE IF current THEN FakeResponse(204)
    ELSE api_client(dm, "None", "POST", <<"security", "ldap">>, code)

\* api_set_ldap, lines 583-596
SetLdapReport(status) ==
    IF status = 201 THEN "created" ELSE IF status = 204 THEN "notupdatable" ELSE "failed"

\* api_set_realms, lines 617-620
SetRealmsRet(dm, realms, code) ==
    IF dm THEN FakeResponse(200)
    ELSE api_client(dm, "None", "PUT", <<"security", "realms", "active">>, code)

\* api_set_realms, lines 622-629
SetRealmsReport(status) == IF status = 204 THEN "updated" ELSE "failed"

(***************************************************************************)
(* The target directory of an import.                                      *)
(***************************************************************************)
RepoPool ==
    {[name |-> <<"rel">>, format |-> "maven2", type |-> "hosted"],
     [name |-> <<"central">>, format |-> "maven2", type |-> "proxy"],
     [name |-> <<"public">>, format |-> "maven2", type |-> "group"],
     [name |-> <<"hosted", "all">>, format |-> "maven2", type |-> "group"]}

RolePool ==
    {[id |-> <<"dev">>, roles |-> <<>>, privileges |-> <<>>],
     [id |-> <<"ops">>, roles |-> <<"dev">>],
     [id |-> <<"qa">>, privileges |-> <<"p1", "p2", "p3">>]}

LdapPool == {[name |-> <<"corp">>]}

RealmsPool == {<<"NexusAuthenticatingRealm", "LdapRealm">>}

TargetDirs == {<<"out">>, <<"srv", "proxy", "out">>}

\* The sequences without repetition of at most n elements of S: what glob
\* may return for a directory holding some files of S.
InjSeqs(S, n) ==
    {q \in SeqsUpTo(S, n) : \A i, j \in 1..Len(q) : i # j => q[i] # q[j]}

EmptyDir == [repos |-> <<>>, roles |-> <<>>, ldap |-> <<>>, realms |-> <<>>]

Dirs ==
    {d \in [repos : InjSeqs(RepoPool, MaxFiles), roles : InjSeqs(RolePool, MaxFiles),
            ldap : InjSeqs(LdapPool, MaxFiles), realms : InjSeqs(RealmsPool, MaxFiles)] :
        Len(d.repos) + Len(d.roles) + Len(d.ldap) + Len(d.realms) <= MaxFiles}

\* The --types expressions tried.
TypeExprs ==
    {Join(<<ALL>>, Comma), Join(<<REPOS, ROLES>>, Comma), Join(<<<<"-">> \o REPOS>>, Comma)}

\* With the default ALL of cli_import an expression that only adds types
\* resolves like ALL: the expressions tried with import.
ImportTypeExprs == {Join(<<ALL>>, Comma), Join(<<<<"-">> \o REPOS>>, Comma)}

Ops == {"ls", "export", "import"}

\* OutputFormat
OutputFormats == {"yaml", "json", "python"}

\* The --limit strings tried: none, and the name of one repository.
RunLimits == {<<>>, <<"rel">>}

\* The --select values tried.
RunSelects == {"exact"}

\* The --limit and --select values tried with import: the defaults, a rule
\* that names one repository, and that rule under another strategy.
ImportOptions ==
    {[limits |-> <<>>, select |-> "exact"],
     [limits |-> <<"rel">>, select |-> "exact"],
     [limits |-> <<"rel">>, select |-> "contains"]}

\* A file left in the target directory by an earlier export.
OldFile == <<"out", "repos", "maven2", "hosted", "old", "json">>

\* What the server may list.
SrvRepos ==
    {[name |-> <<"rel">>, format |-> "maven2", type |-> "hosted"],
     [name |-> <<"central">>, format |-> "maven2", type |-> "proxy"]}

SrvRoles ==
    {[id |-> <<"dev">>, name |-> <<"dev">>, source |-> "default"],
     [id |-> <<"nx-admin">>, name |-> <<"nx-admin">>, source |-> "default"],
     [id |-> <<"ext">>, name |-> <<"ext">>, source |-> "LDAP"]}

SrvLdaps == {[name |-> <<"corp">>]}

\* The active realms are a list of strings, not of dicts.
SrvRealms == {"NexusAuthenticatingRealm"}

RunIdle ==
    /\ op = "none" /\ dry_mode = FALSE /\ target_dir = <<>> /\ typesExpr = <<>>
    /\ targets = ResourceTypesList /\ types = {} /\ pc = "idle" /\ loaded = FALSE
    /\ todo = <<>> /\ dir = EmptyDir /\ requests = <<>> /\ calls = <<>> /\ outcomes = <<>>
    /\ output_format = "json" /\ limitsOpt = <<>> /\ selectOpt = "exact" /\ clean = FALSE
    /\ fetched = <<>> /\ fsDir = FALSE /\ fsFiles = {} /\ err = "none"

\* An import reads the files of the target directory (dir); a list or an
\* export starts from a target directory that is absent or holds an old file.
RunInit ==
    /\ op \in Ops
    /\ dry_mode \in BOOLEAN
    /\ typesExpr \in (IF op = "import" THEN ImportTypeExprs ELSE TypeExprs)
    /\ fetched = <<>>
    /\ IF op = "import"
       THEN /\ target_dir \in TargetDirs
            /\ dir \in Dirs
            /\ output_format = "json"
            /\ \E o \in ImportOptions : limitsOpt = o.limits /\ selectOpt = o.select
            /\ clean = FALSE /\ fsDir = TRUE /\ fsFiles = {}
       ELSE /\ target_dir = <<"out">>
            /\ dir = EmptyDir
            /\ output_format \in OutputFormats
            /\ limitsOpt \in RunLimits
            /\ selectOpt \in RunSelects
            /\ clean \in (IF op = "export" THEN BOOLEAN ELSE {FALSE})
            /\ \E old \in BOOLEAN :
                  /\ fsDir = old
                  /\ fsFiles = IF old THEN {OldFile} ELSE {}
    /\ targets = ResourceTypesList
    /\ types = {}
    /\ pc = "start"
    /\ loaded = FALSE
    /\ todo = <<>>
    /\ requests = <<>>
    /\ calls = <<>>
    /\ outcomes = <<>>
    /\ err = "none"

\* The order in which cli_ls, cli_export and cli_import go through the types.
NextPhase(p) ==
    CASE p = "repos" -> "ldap" [] p = "ldap" -> "roles" [] p = "roles" -> "realms"
      [] p = "realms" -> IF op = "ls" THEN "print" ELSE "done"

\* A create-or-update whose failure breaks out of the loop of its type.
RecordBreakOnFailure(type, item, lk, ret, report) ==
    /\ calls' = Append(calls, [type |-> type, item |-> item])
    /\ IF lk.res = "raised"
       THEN /\ requests' = requests \o lk.reqs
            /\ pc' = "fatal" /\ err' = ErrAuth
            /\ UNCHANGED <<outcomes, todo>>
       ELSE /\ requests' = requests \o lk.reqs \o ret.reqs
            /\ IF ret.raises
               THEN /\ pc' = "fatal"
                    /\ err' = IF ret.status = 401 THEN ErrAuth ELSE ErrMethod
                    /\ UNCHANGED <<outcomes, todo>>
               ELSE /\ outcomes' = Append(outcomes,
                           [type |-> type, item |-> item, found |-> lk.res = "found",
                            outcome |-> report])
                    /\ todo' = IF report = "failed" THEN <<>> ELSE Tail(todo)
                    /\ UNCHANGED <<pc, err>>
    /\ UNCHANGED <<cfgVars, targets, types, loaded, dir, fetched, fsVars, selVars, tglVars>>

\* One create-or-update with its lookup result and report appended to the logs;
\* a raising call (401) ends the run.
Record(type, item, lk, ret, report) ==
    /\ calls' = Append(calls, [type |-> type, item |-> item])
    /\ IF lk.res = "raised"
       THEN /\ requests' = requests \o lk.reqs
            /\ pc' = "fatal" /\ err' = ErrAuth
            /\ UNCHANGED <<outcomes, todo>>
       ELSE /\ requests' = requests \o lk.reqs \o ret.reqs
            /\ IF ret.raises
               THEN /\ pc' = "fatal"
                    /\ err' = IF ret.status = 401 THEN ErrAuth ELSE ErrMethod
                    /\ UNCHANGED <<outcomes, todo>>
               ELSE /\ outcomes' = Append(outcomes,
                           [type |-> type, item |-> item, found |-> lk.res = "found",
                            outcome |-> report])
                    /\ todo' = Tail(todo)
                    /\ UNCHANGED <<pc, err>>
    /\ UNCHANGED <<cfgVars, targets, types, loaded, dir, fetched, fsVars, selVars, tglVars>>

\* cli_import: the types resolved from the expression, with default ALL.
CliImport ==
    /\ pc = "start" /\ op = "import"
    /\ LET r == control_list(typesExpr, targets, Comma, ALL)
       IN  /\ types' = r.result
           /\ targets' = CallerListAfter(targets, r.defaults)
    /\ pc' = "repos"
    /\ UNCHANGED <<cfgVars, loaded, todo, dir, requests, calls, outcomes, fetched, fsVars,
                   err, selVars, tglVars>>

\* Entering the loop of one resource type, or skipping the type.
Enter(type, p, items) ==
    /\ pc = p /\ op = "import" /\ ~loaded
    /\ IF type \in types
       THEN todo' = items /\ loaded' = TRUE /\ UNCHANGED pc
       ELSE pc' = NextPhase(p) /\ UNCHANGED <<todo, loaded>>
    /\ UNCHANGED <<cfgVars, targets, types, dir, requests, calls, outcomes, fetched, fsVars,
                   err, selVars, tglVars>>

\* cli_import_repos pushing only the files that limit_reduce keeps.
CliImportReposLimited ==
    Enter(REPOS, "repos",
          limit_reduce(
              Sorted(dir.repos,
                     [i \in 1..Len(dir.repos) |->
                         nexus_sort_repos(RepoFilePath(target_dir, dir.repos[i]))]),
              "name", [t |-> "str", v |-> limitsOpt], Comma, selectOpt).out)

\* cli_import_repos: glob, then the sort by nexus_sort_repos of the file name.
CliImportRepos ==
    Enter(REPOS, "repos",
          Sorted(dir.repos,
                 [i \in 1..Len(dir.repos) |->
                     nexus_sort_repos(RepoFilePath(target_dir, dir.repos[i]))]))

\* cli_import_ldap: glob order.
CliImportLdap == Enter(LDAP, "ldap", dir.ldap)

\* cli_import_roles: glob, then the sort by nexus_sort_roles.
CliImportRoles ==
    Enter(ROLES, "roles",
          Sorted(dir.roles, [i \in 1..Len(dir.roles) |-> nexus_sort_roles(dir.roles[i])]))

\* cli_import_realms: the first file matching conf/realms.*, if any.
CliImportRealms ==
    Enter(REALMS, "realms", IF Len(dir.realms) < 1 THEN <<>> ELSE <<dir.realms[1]>>)

\* api_set_repo(repo) for the next file of cli_import_repos.
ApiSetRepo ==
    /\ pc = "repos" /\ op = "import" /\ loaded /\ todo # <<>>
    /\ \E c1 \in GetCodes, c2 \in GetCodes, code \in RepoPostCodes \cup PutCodes :
          LET repo == Head(todo)
              lk == api_get_repo(dry_mode, repo, TRUE, c1, c2)
              ret == SetRepoRet(dry_mode, lk.res = "found", repo, code)
          IN  /\ (lk.res = "found") => code \in PutCodes
              /\ (lk.res # "found") => code \in RepoPostCodes
              /\ Record("repos", repo, lk, ret, SetRepoReport(ret.status))

\* api_set_role(role) for the next role of cli_import_roles.
ApiSetRole ==
    /\ pc = "roles" /\ op = "import" /\ loaded /\ todo # <<>>
    /\ \E c1 \in GetCodes, code \in RolePostCodes \cup PutCodes :
          LET role == Head(todo)
              lk == api_get_one(dry_mode, <<"security", "roles">> \o role.id, c1)
              ret == SetRoleRet(dry_mode, lk.res = "found", role, code)
          IN  /\ (lk.res = "found") => code \in PutCodes
              /\ (lk.res # "found") => code \in RolePostCodes
              /\ Record("roles", role, lk, ret, SetRoleReport(ret.status))

\* api_set_ldap(ldap) for the next endpoint of cli_import_ldap.
ApiSetLdap ==
    /\ pc = "ldap" /\ op = "import" /\ loaded /\ todo # <<>>
    /\ \E c1 \in GetCodes, code \in LdapPostCodes :
          LET ldap == Head(todo)
              lk == api_get_one(dry_mode, <<"security", "ldap">> \o ldap.name, c1)
              ret == SetLdapRet(dry_mode, lk.res = "found", ldap, code)
          IN  Record("ldap", ldap, lk, ret, SetLdapReport(ret.status))

\* api_set_realms(realms): no lookup, one PUT of the whole list.
ApiSetRealms ==
    /\ pc = "realms" /\ op = "import" /\ loaded /\ todo # <<>>
    /\ \E code \in PutCodes :
          LET realms == Head(todo)
              lk == [reqs |-> <<>>, res |-> "none"]
              ret == SetRealmsRet(dry_mode, realms, code)
          IN  Record("realms", realms, lk, ret, SetRealmsReport(ret.status))

\* The loop of a resource type has no item left: on to the next type.
EndPhase ==
    /\ pc \in {"repos", "ldap", "roles", "realms"} /\ loaded /\ todo = <<>>
    /\ pc' = NextPhase(pc)
    /\ loaded' = FALSE
    /\ UNCHANGED <<cfgVars, targets, types, todo, dir, requests, calls, outcomes,
                   fetched, fsVars, err, selVars, tglVars>>

\* write_to_file saving the content whatever dry says.
write_to_file_always(filename, fmt, dry) ==
    IF fmt = "None" THEN [raises |-> FALSE, filename |-> filename, writes |-> TRUE]
    ELSE IF fmt = "json"
    THEN [raises |-> FALSE, filename |-> filename \o <<"json">>, writes |-> TRUE]
    ELSE IF fmt = "yaml"
    THEN [raises |-> FALSE, filename |-> filename \o <<"yaml">>, writes |-> TRUE]
    ELSE [raises |-> TRUE, filename |-> filename, writes |-> FALSE]

\* write_to_file(filename, content, fmt, dry=dry): the name with its
\* extension, whether the file is written, or the unsupported format raised.
write_to_file(filename, fmt, dry) ==
    IF fmt = "None" THEN [raises |-> FALSE, filename |-> filename, writes |-> ~dry]
    ELSE IF fmt = "json"
    THEN [raises |-> FALSE, filename |-> filename \o <<"json">>, writes |-> ~dry]
    ELSE IF fmt = "yaml"
    THEN [raises |-> FALSE, filename |-> filename \o <<"yaml">>, writes |-> ~dry]
    ELSE [raises |-> TRUE, filename |-> filename, writes |-> FALSE]

\* limit_reduce over a list of strings (the realms): item.get raises on the
\* first item, unless the strategy is rejected before.
limit_reduce_strs(config, key, lim, sep, sel) ==
    IF LimitsFalsy(EffectiveLimits(lim, sep)) THEN Ok(config)
    ELSE IF EffectiveSelect(sel) \notin {"exact", "contains", "startswith", "endswith", "regex"}
    THEN Raise("Nexus3CtlException")
    ELSE IF config # <<>> THEN Raise("AttributeError")
    ELSE Ok(<<>>)

\* nexus_default_roles
nexus_default_roles == {<<"nx-admin">>, <<"nx-anonymous">>}

\* api_get_roles, lines 476-481
RoleFilter(items, exclude_ldap, exclude_default) ==
    LET keep(item) ==
            /\ exclude_default => Get(item, "id") \notin nexus_default_roles
            /\ exclude_ldap => item.source # "LDAP"
    IN  SelectSeq(items, keep)

\* api_get_repos / api_get_ldaps / api_get_roles / api_get_realms: the GET of
\* the listing answered with code and body coll, then "if limits:" the
\* reduction of the body. A status other than 200 gives {}; exc is the
\* exception of a raising call.
api_get_list(dm, path, code, coll, dicts, lim, sel) ==
    LET r == api_client(dm, "None", "GET", path, code)
        lr == IF lim = <<>> THEN Ok(coll)
              ELSE IF dicts
              THEN limit_reduce(coll, "name", [t |-> "str", v |-> lim], Comma, sel)
              ELSE limit_reduce_strs(coll, "name", [t |-> "str", v |-> lim], Comma, sel)
        exc == IF lr.exc = "Nexus3CtlException" THEN ErrMode ELSE lr.exc
    IN  IF r.raises
        THEN [reqs |-> r.reqs, res |-> "raised", items |-> <<>>, exc |-> ErrAuth]
        ELSE IF r.status # 200
        THEN [reqs |-> r.reqs, res |-> "empty", items |-> <<>>, exc |-> "none"]
        ELSE IF lr.kind = "raise"
        THEN [reqs |-> r.reqs, res |-> "raised", items |-> <<>>, exc |-> exc]
        ELSE [reqs |-> r.reqs, res |-> "ok", items |-> lr.out, exc |-> "none"]

\* The items the server has listed so far in this run.
RECURSIVE ListedCount(_)
ListedCount(f) ==
    IF f = <<>> THEN 0 ELSE Len(Head(f).items) + ListedCount(Tail(f))

\* cli_ls: the types resolved from the expression, with default NONE.
CliLs ==
    /\ pc = "start" /\ op = "ls"
    /\ LET r == control_list(typesExpr, targets, Comma, NONE)
       IN  /\ types' = r.result
           /\ targets' = CallerListAfter(targets, r.defaults)
    /\ pc' = "repos"
    /\ UNCHANGED <<cfgVars, loaded, todo, dir, requests, calls, outcomes, fetched, fsVars,
                   err, selVars, tglVars>>

\* cli_export: the types resolved with default NONE, then clean_target_dir
\* when asked: the tree is removed if it is there and the mode is not dry.
CliExport ==
    /\ pc = "start" /\ op = "export"
    /\ LET r == control_list(typesExpr, targets, Comma, NONE)
       IN  /\ types' = r.result
           /\ targets' = CallerListAfter(targets, r.defaults)
    /\ IF clean /\ fsDir /\ ~dry_mode
       THEN fsDir' = FALSE /\ fsFiles' = {}
       ELSE UNCHANGED fsVars
    /\ pc' = "repos"
    /\ UNCHANGED <<cfgVars, loaded, todo, dir, requests, calls, outcomes, fetched,
                   err, selVars, tglVars>>

\* One listing of cli_ls or cli_export: skipped when the type is not active;
\* cli_ls keeps the items, cli_export goes on to write them (the realms as
\* one list, whatever was fetched).
Fetch(type, p, path, colls, dicts, exclude) ==
    /\ pc = p /\ op \in {"ls", "export"} /\ ~loaded
    /\ IF type \notin types
       THEN /\ pc' = NextPhase(p)
            /\ UNCHANGED <<todo, loaded, requests, fetched, err>>
       ELSE \E code \in GetCodes, coll \in colls :
              LET g == api_get_list(dry_mode, path, code, coll, dicts, limitsOpt, selectOpt)
                  items == IF exclude /\ op = "export"
                           THEN RoleFilter(g.items, TRUE, TRUE) ELSE g.items
              IN  /\ code # 200 => coll = <<>>
                  /\ Len(coll) + ListedCount(fetched) <= MaxListed
                  /\ requests' = requests \o g.reqs
                  /\ IF g.res = "raised"
                     THEN pc' = "fatal" /\ err' = g.exc /\ UNCHANGED <<todo, loaded, fetched>>
                     ELSE /\ fetched' = Append(fetched, [type |-> type, items |-> items])
                          /\ UNCHANGED err
                          /\ IF op = "ls"
                             THEN pc' = NextPhase(p) /\ UNCHANGED <<todo, loaded>>
                             ELSE /\ todo' = IF dicts THEN items ELSE <<items>>
                                  /\ loaded' = TRUE
                                  /\ UNCHANGED pc
    /\ UNCHANGED <<cfgVars, targets, types, dir, calls, outcomes, fsVars, selVars, tglVars>>

\* api_get_repos(limits, select)
ApiGetRepos ==
    Fetch(REPOS, "repos", <<"repositories">>, InjSeqs(SrvRepos, MaxListed), TRUE, FALSE)

\* api_get_ldaps(limits, select)
ApiGetLdaps ==
    Fetch(LDAP, "ldap", <<"security", "ldap">>, InjSeqs(SrvLdaps, MaxListed), TRUE, FALSE)

\* api_get_roles(limits, select), with exclude_ldap and exclude_default when
\* called by cli_export_roles
ApiGetRoles ==
    Fetch(ROLES, "roles", <<"security", "roles">>, InjSeqs(SrvRoles, MaxListed), TRUE, TRUE)

\* api_get_realms(limits, select)
ApiGetRealms ==
    Fetch(REALMS, "realms", <<"security", "realms", "active">>,
          InjSeqs(SrvRealms, MaxListed), FALSE, FALSE)

\* What os.makedirs and open make of the file system: the file written, or
\* an OSError (PermissionError, IsADirectoryError, ...) with the directory
\* created or not.
WriteResults == {"written", "oserror", "oserror_after_makedirs"}

\* The end of one iteration of an export loop: the request of the item raised
\* (401), the unsupported format raised, the write raised, or the file
\* written.
Written(reqs, raised, dest) ==
    LET w == write_to_file(dest, output_format, dry_mode)
    IN  /\ requests' = requests \o reqs
        /\ IF raised \/ w.raises
           THEN /\ pc' = "fatal"
                /\ err' = IF raised THEN ErrAuth ELSE ErrFormat
                /\ UNCHANGED <<todo, fsVars>>
           ELSE IF ~w.writes
           THEN todo' = Tail(todo) /\ UNCHANGED <<pc, err, fsVars>>
           ELSE \E res \in WriteResults :
                  IF res = "written"
                  THEN /\ todo' = Tail(todo)
                       /\ fsDir' = TRUE /\ fsFiles' = fsFiles \cup {w.filename}
                       /\ UNCHANGED <<pc, err>>
                  ELSE /\ pc' = "fatal" /\ err' = ErrOS
                       /\ fsDir' = (fsDir \/ res = "oserror_after_makedirs")
                       /\ UNCHANGED <<todo, fsFiles>>
        /\ UNCHANGED <<cfgVars, targets, types, loaded, dir, calls, outcomes, fetched,
                       selVars, tglVars>>

\* cli_export_repos, one repository: the payload fetched by format and type,
\* then written to repos/{format}-{type}__{name}.
ExportRepo ==
    /\ pc = "repos" /\ op = "export" /\ loaded /\ todo # <<>>
    /\ \E code \in GetCodes :
          LET repo == Head(todo)
              g == api_get_repo(dry_mode, repo, FALSE, 200, code)
              dest == target_dir \o <<"repos", repo.format, repo.type>> \o repo.name
          IN  Written(g.reqs, g.res = "raised", dest)

\* cli_export_ldap, one endpoint
ExportLdap ==
    /\ pc = "ldap" /\ op = "export" /\ loaded /\ todo # <<>>
    /\ Written(<<>>, FALSE, target_dir \o <<"ldap">> \o Head(todo).name)

\* cli_export_roles, one role
ExportRole ==
    /\ pc = "roles" /\ op = "export" /\ loaded /\ todo # <<>>
    /\ Written(<<>>, FALSE, target_dir \o <<"roles">> \o Head(todo).name)

\* cli_export_realms: the list written to conf/realms
ExportRealms ==
    /\ pc = "realms" /\ op = "export" /\ loaded /\ todo # <<>>
    /\ Written(<<>>, FALSE, target_dir \o <<"conf", "realms">>)

\* cli_ls, lines 979-996: the output printed in the chosen format.
LsPrint ==
    /\ pc = "print"
    /\ IF output_format \in {"python", "json", "yaml"}
       THEN pc' = "done" /\ UNCHANGED err
       ELSE pc' = "fatal" /\ err' = ErrFormat
    /\ UNCHANGED <<cfgVars, targets, types, loaded, todo, dir, requests, calls, outcomes,
                   fetched, fsVars, selVars, tglVars>>

Init == RunInit /\ SelIdle /\ TglIdle

Next ==
    \/ CliLs
    \/ CliExport
    \/ ApiGetRepos
    \/ ApiGetLdaps
    \/ ApiGetRoles
    \/ ApiGetRealms
    \/ ExportRepo
    \/ ExportLdap
    \/ ExportRole
    \/ ExportRealms
    \/ LsPrint
    \/ CliImport
    \/ CliImportRepos
    \/ CliImportLdap
    \/ CliImportRoles
    \/ CliImportRealms
    \/ ApiSetRepo
    \/ ApiSetRole
    \/ ApiSetLdap
    \/ ApiSetRealms
    \/ EndPhase

Spec == Init /\ [][Next]_vars

InitSelect == SelInit /\ TglIdle /\ RunIdle
NextSelect == LimitReduceCall
SpecSelect == InitSelect /\ [][NextSelect]_vars

InitToggle == TglInit /\ SelIdle /\ RunIdle
NextToggle == ControlListCall
SpecToggle == InitToggle /\ [][NextToggle]_vars

(***************************************************************************)
(* Properties of control_list.                                             *)
(***************************************************************************)
TglTokens == Split(tglConfig, Comma)

TglSuffix(k) == Join(SubSeq(TglTokens, k, Len(TglTokens)), Comma)

\* C4: ALL and NONE discard what was accumulated before them: the result of
\* P, ALL, S is the result of ALL, S, and likewise for NONE; an expression
\* that ends in ALL gives the defaults.
CE_C4 ==
    tglPc = "done" =>
        \A k \in 1..Len(TglTokens) :
            TglTokens[k] \in {ALL, NONE} =>
                /\ tglResult = control_list(TglSuffix(k), tglDefaults, Comma, tglDefault).result
                /\ (k = Len(TglTokens) /\ TglTokens[k] = ALL) => tglResult = SeqToSet(tglDefaults)

\* The evaluation C5 describes, on sets.
RefStep(acc, conf, defaults) ==
    IF conf = <<>> THEN acc
    ELSE IF conf = ALL THEN SeqToSet(defaults)
    ELSE IF conf = NONE THEN {}
    ELSE IF StartsWith(conf, <<"-">>) THEN acc \ {Tail(conf)}
    ELSE IF StartsWith(conf, <<"+">>) THEN acc \cup {Tail(conf)}
    ELSE acc \cup {conf}

RECURSIVE RefWalk(_, _, _, _)
RefWalk(acc, tokens, defaults, i) ==
    IF i > Len(tokens) THEN acc
    ELSE RefWalk(RefStep(acc, tokens[i], defaults), tokens, defaults, i + 1)

RefResolve(tokens, defaults, default) ==
    LET toks == IF default # None /\ (tokens = <<>> \/ tokens[1] # default)
                THEN <<default>> \o tokens ELSE tokens
    IN  RefWalk({}, toks, defaults, 1)

\* C5: control_list returns the set of the reference evaluation: the default
\* token prepended unless it is the first token, then the tokens walked left
\* to right from the empty set, ALL giving the defaults, NONE the empty set,
\* -name removing, +name and name adding, empty tokens skipped.
CE_C5 ==
    tglPc = "done" => tglResult = RefResolve(TglTokens, tglDefaults, tglDefault)


(***************************************************************************)
(* Properties of limit_reduce.                                             *)
(***************************************************************************)
SelRules == EffectiveLimits(selLimits, Comma).v
SelOut == selResult.out
SelKey(item) == Get(item, "name")
IsRule(k) == \E r \in 1..Len(SelRules) : SelRules[r] = k
FirstRule(k) == CHOOSE r \in 1..Len(SelRules) :
                    SelRules[r] = k /\ \A q \in 1..(r - 1) : SelRules[q] # k
FirstItem(k) == CHOOSE j \in 1..Len(selConfig) :
                    SelKey(selConfig[j]) = k /\ \A q \in 1..(j - 1) : SelKey(selConfig[q]) # k
SelExact == EffectiveSelect(selSelect) = "exact"
SelRulesEmpty == LimitsFalsy(EffectiveLimits(selLimits, Comma))

\* C1: with a non-empty rule list and the strategy exact, limit_reduce returns
\* the items whose key equals some rule, one item per key value (the first of
\* the collection with that key), ordered by the first rule that names the key.
C1_ExactSelect ==
    (selPc = "done" /\ SelExact /\ ~SelRulesEmpty) =>
        /\ selResult.kind = "ok"
        /\ \A i \in 1..Len(SelOut) :
              /\ IsRule(SelKey(SelOut[i]))
              /\ SelOut[i] = selConfig[FirstItem(SelKey(SelOut[i]))]
        /\ \A j \in 1..Len(selConfig) :
              IsRule(SelKey(selConfig[j])) =>
                  \E i \in 1..Len(SelOut) : SelKey(SelOut[i]) = SelKey(selConfig[j])
        /\ \A i, j \in 1..Len(SelOut) :
              i # j => SelKey(SelOut[i]) # SelKey(SelOut[j])
        /\ \A i, j \in 1..Len(SelOut) :
              i < j => FirstRule(SelKey(SelOut[i])) < FirstRule(SelKey(SelOut[j]))

\* C1 witness: two rules select two items in the order of the rules, which is
\* the reverse of the collection's order.
W_C1 ==
    /\ selPc = "done" /\ SelExact /\ ~SelRulesEmpty
    /\ Len(selConfig) = 2 /\ Len(SelOut) = 2
    /\ SelOut[1] = selConfig[2] /\ SelOut[2] = selConfig[1]
    /\ Len(SelRules) = 2

SelLimitsEmptyInput ==
    \/ selLimits.t = "none"
    \/ selLimits.t = "list" /\ selLimits.v = <<>>
    \/ selLimits.t = "str" /\ selLimits.v = <<>>

\* C2: when the rule list is empty (None, the empty list or the empty string)
\* limit_reduce returns the input collection unchanged, whatever the strategy.
CE_C2 ==
    (selPc = "done" /\ SelLimitsEmptyInput /\ selSelect # "bogus") =>
        selResult = Ok(selConfig)

SelLacksKey == \E i \in 1..Len(selConfig) : "name" \notin DOMAIN selConfig[i]

\* C3: with an item that lacks the key field and a non-empty rule list, the
\* strategies contains, startswith, endswith and regex complete without raising
\* and leave the items without the key field out of the result.
CE_C3 ==
    (/\ selPc = "done" /\ SelLacksKey /\ ~SelRulesEmpty
     /\ selSelect \in {"contains", "startswith", "endswith", "regex"}) =>
        /\ selResult.kind = "ok"
        /\ \A i \in 1..Len(SelOut) : "name" \in DOMAIN SelOut[i]

(***************************************************************************)
(* Properties of the import run.                                           *)
(***************************************************************************)
\* The rank of a repository file by the type segment of its name.
TypeRank(repo) ==
    IF repo.type = "hosted" THEN 1 ELSE IF repo.type = "proxy" THEN 2 ELSE 3

\* C6: cli_import_repos issues the create-or-update of every hosted file before
\* that of every proxy file, and that of every proxy file before every other,
\* whatever the glob order and the target directory.
CE_C6 ==
    \A i, j \in 1..Len(calls) :
        (i < j /\ calls[i].type = "repos" /\ calls[j].type = "repos") =>
            TypeRank(calls[i].item) <= TypeRank(calls[j].item)

RoleScore(role) == LenOrEmpty(role, "roles") * 3 + LenOrEmpty(role, "privileges")

\* C7: cli_import_roles issues the create-or-update calls in ascending order of
\* len(roles) * 3 + len(privileges): when the call of a role is issued, the call
\* of every role file of a strictly smaller score has been issued before it.
C7_RolesAscending ==
    \A j \in 1..Len(calls) :
        calls[j].type = "roles" =>
            /\ \A a \in 1..Len(dir.roles) :
                  RoleScore(dir.roles[a]) < RoleScore(calls[j].item) =>
                      \E i \in 1..(j - 1) : calls[i] = [type |-> "roles", item |-> dir.roles[a]]
            /\ \A i \in 1..(j - 1) :
                  calls[i].type = "roles" => RoleScore(calls[i].item) <= RoleScore(calls[j].item)

\* C7 witness: glob returned a role of score 3 before a role of score 0, and
\* the role of score 0 was pushed first.
W_C7 ==
    /\ Len(dir.roles) = 2
    /\ RoleScore(dir.roles[1]) = 3 /\ RoleScore(dir.roles[2]) = 0
    /\ Len(calls) = 2
    /\ calls[1] = [type |-> "roles", item |-> dir.roles[2]]
    /\ calls[2] = [type |-> "roles", item |-> dir.roles[1]]

\* C8: for repos and roles, in normal and dry mode, "updated" is reported
\* exactly when the lookup found the item and "created" exactly when it found
\* none.
CE_C8 ==
    \A i \in 1..Len(outcomes) :
        outcomes[i].type \in {"repos", "roles"} =>
            /\ outcomes[i].outcome = "updated" => outcomes[i].found
            /\ outcomes[i].outcome = "created" => ~outcomes[i].found

\* C10: in dry mode no create-or-update of an import is reported as failed,
\* for repos, roles, LDAP and realms.
CE_C10 ==
    dry_mode => \A i \in 1..Len(outcomes) : outcomes[i].outcome # "failed"

(***************************************************************************)
(* Properties of the dry mode.                                             *)
(***************************************************************************)
ListingPath(type) ==
    CASE type = REPOS -> <<"repositories">>
      [] type = LDAP -> <<"security", "ldap">>
      [] type = ROLES -> <<"security", "roles">>
      [] type = REALMS -> <<"security", "realms", "active">>

LookupPath(o) ==
    CASE o.type = "repos" -> <<"repositories">> \o o.item.name
      [] o.type = "roles" -> <<"security", "roles">> \o o.item.id
      [] o.type = "ldap" -> <<"security", "ldap">> \o o.item.name

SentGet(path) ==
    \E k \in 1..Len(requests) : requests[k].method = "GET" /\ requests[k].path = path

\* C9: in dry mode no PUT, POST or DELETE request is ever sent to the server
\* by a list, export or import run, while the GET of every listing fetched and
\* of every lookup made is sent.
C9_DryNoMutation ==
    dry_mode =>
        /\ \A k \in 1..Len(requests) : requests[k].method = "GET"
        /\ \A i \in 1..Len(fetched) : SentGet(ListingPath(fetched[i].type))
        /\ \A i \in 1..Len(outcomes) :
              outcomes[i].type \in {"repos", "roles", "ldap"} => SentGet(LookupPath(outcomes[i]))

\* C9 witness: a dry import has reported a repository it found on the server
\* as updated, having sent the two GETs of the lookup and nothing else.
W_C9 ==
    /\ dry_mode /\ op = "import"
    /\ Len(outcomes) = 1 /\ outcomes[1].type = "repos"
    /\ outcomes[1].found /\ outcomes[1].outcome = "updated"
    /\ Len(requests) = 2

(***************************************************************************)
(* Properties of the errors of a run.                                      *)
(***************************************************************************)
\* Some request of the run was answered with 401.
Got401 == \E k \in 1..Len(requests) : requests[k].status = 401

\* C11: a request answered with 401 is the last request of the run, the run
\* is then in its fatal end, and neither the step that receives the 401 nor
\* any later step changes the target directory.
C11_AuthAborts ==
    /\ [](\A k \in 1..Len(requests) :
            requests[k].status = 401 => (k = Len(requests) /\ pc = "fatal"))
    /\ [][Got401' => UNCHANGED fsVars]_vars

\* C11 witness: a normal import has pushed a first file and has had a request
\* for the second file answered with 401; that file stays unpushed.
W_C11 ==
    /\ op = "import" /\ ~dry_mode /\ pc = "fatal"
    /\ Len(outcomes) = 1 /\ Len(todo) = 1
    /\ Len(requests) >= 3 /\ requests[Len(requests)].status = 401

\* The resource type a call is logged under, as an element of types.
TypeOfName(n) ==
    CASE n = "repos" -> REPOS [] n = "ldap" -> LDAP [] n = "roles" -> ROLES
      [] n = "realms" -> REALMS

\* The position of a type in the order of cli_import.
PhaseRank(n) ==
    CASE n = "repos" -> 1 [] n = "ldap" -> 2 [] n = "roles" -> 3 [] n = "realms" -> 4

TypeNames == {"repos", "ldap", "roles", "realms"}

FilesOf(n) == IF TypeOfName(n) \in types THEN Len(dir[n]) ELSE 0

\* C12: an import ends fatally only on a 401; every create-or-update that did
\* not meet a 401 is reported and the loop goes on; when the import is done
\* the calls are, type after type in the order of cli_import, one for every
\* file of every active type and none for the other types, however many of
\* them failed.
C12_BatchContinues ==
    op = "import" =>
        /\ pc = "fatal" => Got401
        /\ pc # "fatal" => Len(outcomes) = Len(calls)
        /\ \A i, j \in 1..Len(calls) :
              i < j => PhaseRank(calls[i].type) <= PhaseRank(calls[j].type)
        /\ pc = "done" =>
              /\ \A n \in TypeNames : \A a \in 1..Len(dir[n]) :
                    (TypeOfName(n) \in types) <=>
                        (\E i \in 1..Len(calls) :
                            calls[i].type = n /\ calls[i].item = dir[n][a])
              /\ Len(calls) =
                    FilesOf("repos") + FilesOf("ldap") + FilesOf("roles") + FilesOf("realms")

\* C12 witness: a normal import is done, its first create-or-update failed
\* and the second file was pushed all the same.
W_C12 ==
    /\ op = "import" /\ ~dry_mode /\ pc = "done"
    /\ Len(calls) = 2 /\ Len(outcomes) = 2
    /\ outcomes[1].outcome = "failed"

\* C13: an export does not stop on a failure to write the file of one item:
\* after an OSError of write_to_file the run is not at its fatal end, the
\* remaining items and types are still to be fetched and written.
CE_C13 ==
    (op = "export" /\ err = ErrOS) => pc # "fatal"

\* C14: when a list or an export raises the error of an unsupported output
\* format or of an unsupported selection mode, no request has been sent to
\* the server by that run.
CE_C14 ==
    (op \in {"ls", "export"} /\ err \in {ErrFormat, ErrMode}) => requests = <<>>

(***************************************************************************)
(* Properties of the LDAP adapter.                                         *)
(***************************************************************************)
\* A step of api_set_ldap, and the requests it sends.
LdapStep == pc = "ldap" /\ op = "import" /\ Len(calls') = Len(calls) + 1

NewReqs == SubSeq(requests', Len(requests) + 1, Len(requests'))

\* C15: api_set_ldap sends the GET of its lookup and at most one more
\* request; that request is the POST to security/ldap, sent only in normal
\* mode after a lookup that found no endpoint; after a lookup that found the
\* endpoint nothing else is sent and the endpoint is reported as not
\* updatable, in normal and in dry mode.
C15_LdapNeverUpdated ==
    [][LdapStep =>
        /\ Len(NewReqs) \in {1, 2}
        /\ NewReqs[1].method = "GET"
        /\ NewReqs[1].path = <<"security", "ldap">> \o calls'[Len(calls')].item.name
        /\ Len(NewReqs) = 2 =>
              /\ NewReqs[2].method = "POST" /\ NewReqs[2].path = <<"security", "ldap">>
              /\ ~dry_mode
              /\ NewReqs[1].status # 200
        /\ NewReqs[1].status = 200 =>
              /\ Len(NewReqs) = 1
              /\ Len(outcomes') = Len(outcomes) + 1
              /\ outcomes'[Len(outcomes')].found
              /\ outcomes'[Len(outcomes')].outcome = "notupdatable"
      ]_vars

\* C15 witness: a normal import has found the LDAP endpoint on the server,
\* reported it as not updatable and sent nothing but the GET of the lookup.
W_C15 ==
    /\ op = "import" /\ ~dry_mode
    /\ Len(outcomes) = 1 /\ outcomes[1].type = "ldap"
    /\ outcomes[1].found /\ outcomes[1].outcome = "notupdatable"
    /\ Len(requests) = 1 /\ requests[1].method = "GET" /\ requests[1].status = 200

(***************************************************************************)
(* Properties of control_list on the caller's list.                        *)
(***************************************************************************)
\* C16: after control_list the caller's defaults list holds the elements it
\* held before the call, and a second call with the same expression and the
\* same list object returns the set the first call returned.
CE_C16 ==
    tglPc = "done" =>
        /\ Len(tglCallerAfter) = Len(tglDefaults)
        /\ SeqToSet(tglCallerAfter) = SeqToSet(tglDefaults)
        /\ control_list(tglConfig, tglCallerAfter, Comma, tglDefault).result = tglResult

(***************************************************************************)
(* Properties of the target directory.                                     *)
(***************************************************************************)
\* C17: no step of an export in dry mode changes the target directory: no
\* file and no directory is created, written or removed, with or without
\* the clean flag.
C17_DryExportKeepsFiles ==
    [][(op = "export" /\ dry_mode) => UNCHANGED fsVars]_vars

\* C17 witness: a dry export with the clean flag is done, it has fetched an
\* item to write, and the old file of the target directory is still there
\* alone.
W_C17 ==
    /\ op = "export" /\ dry_mode /\ clean /\ pc = "done"
    /\ ListedCount(fetched) >= 1
    /\ fsDir /\ fsFiles = {OldFile}

(***************************************************************************)
(* Properties of the options of import.                                    *)
(***************************************************************************)
\* The calls of one type, logged under the name n.
Tagged(n, items) == [i \in 1..Len(items) |-> [type |-> n, item |-> items[i]]]

IfActive(n, items) == IF TypeOfName(n) \in types THEN Tagged(n, items) ELSE <<>>

\* The create-or-update calls of a complete import, computed from the target
\* directory and the active types alone.
ImportCalls ==
    IfActive("repos",
             Sorted(dir.repos,
                    [i \in 1..Len(dir.repos) |->
                        nexus_sort_repos(RepoFilePath(target_dir, dir.repos[i]))]))
    \o IfActive("ldap", dir.ldap)
    \o IfActive("roles",
                Sorted(dir.roles,
                       [i \in 1..Len(dir.roles) |-> nexus_sort_roles(dir.roles[i])]))
    \o IfActive("realms", dir.realms)

====
